---- MODULE Spec2Model ----
(***************************************************************************)
(* Exam-session security and lifecycle engine of exampro.                  *)
(*                                                                         *)
(* Three parts are modelled from the source:                               *)
(*   - the server's exam-session routes and incident sink                  *)
(*     (src/server/routes.ts, storage in                                   *)
(*     src/server/simple-name-verification.ts);                            *)
(*   - the WebSocket fan-out of routes.ts;                                 *)
(*   - the student's exam page (the ExamMode component of                  *)
(*     src/client/src/pages/student/exam-complete.tsx).                    *)
(*                                                                         *)
(* The exam page is a React function component.  A handler reads the       *)
(* values its closure captured at the last render (variable cl) and        *)
(* writes the component state; Render is the step that re-captures the     *)
(* state for the handlers and decides which effects run again.             *)
(***************************************************************************)
EXTENDS Integers, Sequences, FiniteSets, TLC

(* ------------------------------ bounds -------------------------------- *)

\* sessions the server may hold
MaxSessions == 2
\* WebSocket connections
MaxConns == 2
\* persisted incidents
MaxIncidents == 4
\* violation handlers suspended between the gate and the insert
MaxInflight == 2
\* steps of the wall clock
MaxTicks == 2
\* milliseconds per step of the wall clock
ClockStep == 30000
\* questions of a session
MaxQuestions == 2
\* seconds of exam time in the creation request
MaxTime == 2
\* browser violations handled by the page
MaxViolations == 4
\* cap of lookAwayCount and multipleFaceCount on the face-sample path
MaxCount == 4
\* counted face samples beside the violation policy
MaxFaceRuns == 2
\* submit requests the page issues
MaxSubmits == 2
\* auto-submissions scheduled beside the face samples
MaxAutoSubmits == 1
\* submit requests issued beside the answer selections
MaxAnswerSubmits == 1
\* incidents reported while the admin connections come and go
MaxBroadcasts == 2

(* ------------------------- program constants -------------------------- *)

\* routes.ts:750  Date.now() - 60000
RateWindowMs == 60000
\* routes.ts:756  recentSameType.length >= 3
RateLimit == 3
\* exam-complete.tsx:634  now - lastSnapshotTime > 10000
StatusPeriodMs == 10000

Letters == {"A", "B"}
NoAnswer == "-"
Questions == 1..MaxQuestions
AnswerSheets == [Questions -> Letters \cup {NoAnswer}]
EmptySheet == [q \in Questions |-> NoAnswer]

Conns == 1..MaxConns
SessionIds == 1..MaxSessions
HallTickets == 1..MaxSessions

BrowserKinds == {"fullscreen_exit", "tab_switch", "window_blur", "key_violation"}
FaceKinds == {"multiple_faces", "looking_away_repeated", "looking_away"}
\* incident types the reports of the sink model carry
ReportTypes == {"window_blur", "looking_away"}
Terminal == {"submitted", "completed"}

VARIABLES
  \* ---- server ----
  now,            \* wall clock, ms (Date.now(), new Date(), defaultNow())
  sessions,       \* exam_sessions table: sequence of rows, id = index
  incidents,      \* security_incidents table: set of rows
  connOpen,       \* wss.clients: connection is OPEN
  connType,       \* ws.type of each connection ("none" = undefined)
  inbox,          \* security_incident messages each connection received (incident ids)
  wsInflight,     \* violation handlers past the gate, before the insert
  users,          \* users table: hall tickets whose student has a row
  questionBank,   \* questions table: number of rows
  activeTickets,  \* hall_tickets table: tickets with isActive = true
  creating,       \* creation requests between their existing-session check and insert
  relayed,        \* per connection: the types of relayed messages it received
  response,       \* the last HTTP response the server sent
  \* ---- network between page and server ----
  submitReqs,     \* POST .../submit requests in flight (answer payloads)
  submitResps,    \* successful submit responses not yet handled by the page
  wsOut,          \* violation messages of the page's socket the server has not handled
  \* ---- exam page (ExamMode component state) ----
  mounted,        \* the component is mounted
  examSession,    \* id of the session (0 = null)
  questions,      \* number of loaded questions (-1 = undefined)
  currentQuestion,
  answers,
  timeRemaining,
  violationCount,
  isPaused,
  lookAwayCount,
  multipleFaceCount,
  lastSnapshotTime,
  cameraActive,
  detection,      \* state of useFaceDetection: the last sample
  cl,             \* values captured by the closures of the last render
  monPending,     \* the face-monitoring effect is scheduled to run
  graceTimers,    \* pending setTimeout(submitExam, 2000)
  emitted,        \* what the step the page has just taken sent or displayed
  \* ---- history ----
  submitsIssued,  \* submitExam() calls
  timerSubmits,   \* submitExam() calls made by the countdown
  sampleCounted,  \* handleMonitoring has counted the last sample (either branch)
  selected,       \* the last option selected for each question
  browserEvents,  \* browser events handed to handleSecurityViolation
  gesture         \* the user action in progress: its DOM events still to be
                  \* dispatched, and violationCount when it began

dbVars == <<users, questionBank, activeTickets, creating, relayed>>
serverVars == <<now, sessions, incidents, connOpen, connType, inbox, wsInflight, dbVars,
                response>>
netVars == <<submitReqs, submitResps, wsOut>>
pageVars == <<mounted, examSession, questions, currentQuestion, answers, timeRemaining,
              violationCount, isPaused, lookAwayCount, multipleFaceCount,
              lastSnapshotTime, cameraActive, detection, cl, monPending, graceTimers,
              emitted>>
histVars == <<submitsIssued, timerSubmits, sampleCounted, selected, browserEvents, gesture>>
vars == <<serverVars, netVars, pageVars, histVars>>

(* ===================== server: exam-session routes ===================== *)

\* request bodies of POST /api/exam-sessions as the page builds them
CreateBodies ==
  { [status |-> "in_progress", currentQuestion |-> 1, answers |-> EmptySheet,
     timeRemaining |-> t] : t \in 1..MaxTime }

\* answer payloads of POST /api/exam-sessions/:id/submit
Sheet(l) == [q \in Questions |-> l]
Payloads == {EmptySheet} \cup {Sheet(l) : l \in Letters}

\* bodies of PATCH /api/exam-sessions/:id ("keep" / -1: the field is absent)
Patches ==
  { [status |-> "in_progress", timeRemaining |-> -1],
    [status |-> "keep", timeRemaining |-> MaxTime] }

\* hallTicket.duration * 60: the seconds the ticket of a session allows
TicketTime(h) == MaxTime

\* bodies of POST /api/exam-sessions that a client can send: the route reads
\* status, currentQuestion, answers and timeRemaining from req.body
AnyBodies ==
  LET b == [status |-> "in_progress", currentQuestion |-> 1, answers |-> EmptySheet,
            timeRemaining |-> TicketTime(0)]
  IN {[b EXCEPT !.timeRemaining = t] : t \in 1..MaxTime}
       \cup {[b EXCEPT !.status = "submitted"], [b EXCEPT !.currentQuestion = MaxQuestions],
             [b EXCEPT !.answers = Sheet("A")]}

SessionExists(id) == id \in 1..Len(sessions)

\* storage.getExamSessionByStudent: the rows of the ticket's student and ticket
SessionsOfTicket(h) == {i \in 1..Len(sessions) : sessions[i].hallTicketId = h}

\* storage.createExamSession: insert with the column defaults
NewSessionRow(h, body) ==
  [hallTicketId |-> h, status |-> body.status, currentQuestion |-> body.currentQuestion,
   answers |-> body.answers, timeRemaining |-> body.timeRemaining, endTime |-> 0]

\* res.status(status).json(...); error is the body's error code, if any
Response(status, error) == [status |-> status, error |-> error]
NoResponse == Response(0, "")

\* a creation body whose timeRemaining is not an integer (written -1)
MalformedBody ==
  [status |-> "in_progress", currentQuestion |-> 1, answers |-> EmptySheet,
   timeRemaining |-> -1]

\* insertExamSessionSchema.parse(sessionData) returns instead of throwing
SchemaAccepts(body) == body.timeRemaining >= 0

\* storage.getHallTicketById finds the ticket and it is active
TicketValid(h) == h \in HallTickets /\ h \in activeTickets

\* POST /api/exam-sessions
PostExamSessions(h, body) ==
  /\ IF ~TicketValid(h)
       THEN /\ response' = Response(400, "")
            /\ UNCHANGED <<users, sessions>>
       ELSE /\ users' = users \cup {h}              \* getUser, else upsertUser
            /\ IF ~SchemaAccepts(body)
                 THEN /\ response' = Response(500, "")     \* parse throws: catch
                      /\ UNCHANGED sessions
                 ELSE IF SessionsOfTicket(h) # {}
                 THEN /\ response' = Response(200, "")     \* res.json(existingSession)
                      /\ UNCHANGED sessions
                 ELSE IF questionBank = 0
                 THEN /\ response' = Response(400, "NO_QUESTIONS_IN_SYSTEM")
                      /\ UNCHANGED sessions
                 ELSE /\ Len(sessions) < MaxSessions
                      /\ sessions' = Append(sessions, NewSessionRow(h, body))
                      /\ response' = Response(200, "")
  /\ UNCHANGED <<now, incidents, connOpen, connType, inbox, wsInflight, questionBank,
                 activeTickets, creating, relayed>>
  /\ UNCHANGED <<netVars, pageVars, histVars>>

RemoveAt(s, i) == SubSeq(s, 1, i - 1) \o SubSeq(s, i + 1, Len(s))

\* POST /api/exam-sessions up to the existing-session check (routes.ts
\* 201-236): a request that finds no session of the ticket goes on to the
\* awaits that load the questions and insert the row
PostExamSessionsCheck(h, body) ==
  /\ IF ~TicketValid(h)
       THEN /\ response' = Response(400, "")
            /\ UNCHANGED <<users, creating>>
       ELSE /\ users' = users \cup {h}              \* getUser, else upsertUser
            /\ IF ~SchemaAccepts(body)
                 THEN /\ response' = Response(500, "")     \* parse throws: catch
                      /\ UNCHANGED creating
                 ELSE IF SessionsOfTicket(h) # {}
                 THEN /\ response' = Response(200, "")     \* res.json(existingSession)
                      /\ UNCHANGED creating
                 ELSE /\ Len(creating) < MaxInflight
                      /\ creating' = Append(creating, [hallTicketId |-> h, body |-> body])
                      /\ UNCHANGED response
  /\ UNCHANGED <<now, sessions, incidents, connOpen, connType, inbox, wsInflight,
                 questionBank, activeTickets, relayed>>
  /\ UNCHANGED <<netVars, pageVars, histVars>>

\* the rest of the route for the request at position i (routes.ts 238-271):
\* the questions are drawn and storage.createExamSession inserts the row
PostExamSessionsInsert(i) ==
  /\ i \in 1..Len(creating)
  /\ LET r == creating[i] IN
       IF questionBank = 0
         THEN /\ response' = Response(400, "NO_QUESTIONS_IN_SYSTEM")
              /\ UNCHANGED sessions
         ELSE /\ Len(sessions) < MaxSessions
              /\ sessions' = Append(sessions, NewSessionRow(r.hallTicketId, r.body))
              /\ response' = Response(200, "")
  /\ creating' = RemoveAt(creating, i)
  /\ UNCHANGED <<now, incidents, connOpen, connType, inbox, wsInflight, users, questionBank,
                 activeTickets, relayed>>
  /\ UNCHANGED <<netVars, pageVars, histVars>>

\* the update the submit route passes to storage.updateExamSession
SubmitUpdate(row, payload) ==
  [row EXCEPT !.answers = payload, !.status = "submitted", !.endTime = now]

\* POST /api/exam-sessions/:id/submit, for the request at position i
PostSubmit(i) ==
  /\ i \in 1..Len(submitReqs)
  /\ LET r == submitReqs[i] IN
       IF SessionExists(r.id)
         THEN /\ sessions' = [sessions EXCEPT ![r.id] = SubmitUpdate(@, r.answers)]
              /\ submitResps' = submitResps + 1
              /\ response' = Response(200, "")
         ELSE /\ UNCHANGED <<sessions, submitResps>>
              /\ response' = Response(404, "")
  /\ submitReqs' = RemoveAt(submitReqs, i)
  /\ UNCHANGED <<now, incidents, connOpen, connType, inbox, wsInflight, dbVars, wsOut>>
  /\ UNCHANGED <<pageVars, histVars>>

\* storage.updateExamSession(id, updates) of the PATCH route
PatchUpdate(row, u) ==
  [row EXCEPT !.status = IF u.status = "keep" THEN @ ELSE u.status,
              !.timeRemaining = IF u.timeRemaining = -1 THEN @ ELSE u.timeRemaining]

\* PATCH /api/exam-sessions/:id
PatchExamSession(id, u) ==
  /\ IF SessionExists(id)
       THEN sessions' = [sessions EXCEPT ![id] = PatchUpdate(@, u)]
       ELSE UNCHANGED sessions                       \* no row: res.json(undefined)
  /\ response' = Response(200, "")
  /\ UNCHANGED <<now, incidents, connOpen, connType, inbox, wsInflight, dbVars>>
  /\ UNCHANGED <<netVars, pageVars, histVars>>

\* PATCH /api/hall-tickets/:id with {isActive: b}, by an admin
PatchHallTicket(h, b) ==
  /\ h \in HallTickets
  /\ activeTickets' = IF b THEN activeTickets \cup {h} ELSE activeTickets \ {h}
  /\ response' = Response(200, "")
  /\ UNCHANGED <<now, sessions, incidents, connOpen, connType, inbox, wsInflight, users,
                 questionBank, creating, relayed>>
  /\ UNCHANGED <<netVars, pageVars, histVars>>

\* POST /api/questions, by an admin
PostQuestion ==
  /\ questionBank < MaxQuestions
  /\ questionBank' = questionBank + 1
  /\ response' = Response(200, "")
  /\ UNCHANGED <<now, sessions, incidents, connOpen, connType, inbox, wsInflight, users,
                 activeTickets, creating, relayed>>
  /\ UNCHANGED <<netVars, pageVars, histVars>>

\* DELETE /api/questions/:id of an existing question, by an admin
DeleteQuestion ==
  /\ questionBank > 0
  /\ questionBank' = questionBank - 1
  /\ response' = Response(200, "")
  /\ UNCHANGED <<now, sessions, incidents, connOpen, connType, inbox, wsInflight, users,
                 activeTickets, creating, relayed>>
  /\ UNCHANGED <<netVars, pageVars, histVars>>

\* a client posts a submit request for session id with the payload a
SubmitRequest(id, a) ==
  /\ submitsIssued < MaxSubmits
  /\ submitReqs' = Append(submitReqs, [id |-> id, answers |-> a])
  /\ submitsIssued' = submitsIssued + 1
  /\ UNCHANGED <<submitResps, wsOut, timerSubmits, sampleCounted, selected, browserEvents, gesture>>
  /\ UNCHANGED <<serverVars, pageVars>>

\* the wall clock advances
AdvanceClock ==
  /\ now + ClockStep <= ClockStep * (MaxTicks + 1)
  /\ now' = now + ClockStep
  /\ UNCHANGED <<sessions, incidents, connOpen, connType, inbox, wsInflight, dbVars, response>>
  /\ UNCHANGED <<netVars, pageVars, histVars>>

(* ================= server: incident sink and fan-out =================== *)

ReportSeverities == {"medium"}

\* wss.on('connection'): a new socket, ws.type undefined
Connect(c) ==
  /\ ~connOpen[c]
  /\ connOpen' = [connOpen EXCEPT ![c] = TRUE]
  /\ connType' = [connType EXCEPT ![c] = "none"]
  /\ inbox' = [inbox EXCEPT ![c] = {}]
  /\ relayed' = [relayed EXCEPT ![c] = {}]
  /\ UNCHANGED <<now, sessions, incidents, wsInflight, users, questionBank, activeTickets,
                 creating, response>>
  /\ UNCHANGED <<netVars, pageVars, histVars>>

\* ws 'close': the socket leaves wss.clients
Close(c) ==
  /\ connOpen[c]
  /\ connOpen' = [connOpen EXCEPT ![c] = FALSE]
  /\ connType' = [connType EXCEPT ![c] = "none"]
  /\ UNCHANGED <<now, sessions, incidents, inbox, wsInflight, dbVars, response>>
  /\ UNCHANGED <<netVars, pageVars, histVars>>

\* message {type: 'auth', userType: t}
Auth(c, t) ==
  /\ connOpen[c]
  /\ connType' = [connType EXCEPT ![c] = t]
  /\ UNCHANGED <<now, sessions, incidents, connOpen, inbox, wsInflight, dbVars, response>>
  /\ UNCHANGED <<netVars, pageVars, histVars>>

\* recentSameType: rows of the session and type created after oneMinuteAgo
RecentSameType(s, t) ==
  {inc \in incidents : /\ inc.sessionId = s
                       /\ inc.incidentType = t
                       /\ inc.createdAt > now - RateWindowMs}

RateLimited(s, t) == Cardinality(RecentSameType(s, t)) >= RateLimit

\* storage.createSecurityIncident: insert, createdAt defaultNow()
NewIncident(s, t, sev) ==
  [id |-> Cardinality(incidents) + 1, sessionId |-> s, incidentType |-> t,
   severity |-> sev, createdAt |-> now,
   isResolved |-> FALSE, resolvedBy |-> "", resolvedAt |-> 0]

\* a fan-out that sends a connection the stored incidents up to id
BroadcastBacklog(id) ==
  [c \in Conns |-> IF connOpen[c] /\ connType[c] = "admin"
                     THEN inbox[c] \cup {inc.id : inc \in {o \in incidents : o.id <= id}} \cup {id}
                     ELSE inbox[c]]

\* wss.clients.forEach: send to every OPEN client whose type is 'admin'
Broadcast(id) ==
  [c \in Conns |-> IF connOpen[c] /\ connType[c] = "admin"
                     THEN inbox[c] \cup {id} ELSE inbox[c]]

\* the messages the server relays, by incoming type, with the type it sends
RelayTypes == {"student_status_update", "video_snapshot", "student_status", "policy_update"}

RelayAs(type) ==
  CASE type = "student_status_update" -> "student_status"
    [] type = "video_snapshot" -> "video_feed"
    [] type = "student_status" -> "student_monitoring"
    [] type = "policy_update" -> "policy_update"

\* a relay that sends to every open connection
RelayToAll(k) ==
  [d \in Conns |-> IF connOpen[d] THEN relayed[d] \cup {k} ELSE relayed[d]]

\* wss.clients.forEach of the relaying handlers: send to every OPEN client
\* whose type is 'admin'
Relay(k) ==
  [d \in Conns |-> IF connOpen[d] /\ connType[d] = "admin"
                     THEN relayed[d] \cup {k} ELSE relayed[d]]

\* message student_status_update / video_snapshot / student_status /
\* policy_update from connection c; complete: a policy_update carries
\* sessionId and action
WsRelay(c, type, complete) ==
  /\ connOpen[c]
  /\ relayed' = IF type = "policy_update" /\ ~complete
                  THEN relayed                      \* return
                  ELSE Relay(RelayAs(type))
  /\ UNCHANGED <<now, sessions, incidents, connOpen, connType, inbox, wsInflight, users,
                 questionBank, activeTickets, creating, response>>
  /\ UNCHANGED <<netVars, pageVars, histVars>>

\* the connection of the page's useWebSocket()
PageConn == CHOOSE c \in Conns : \A d \in Conns : c <= d

\* ws.userId of the auth message: the student at the other end of connection
\* c, named by the hall ticket they hold (0: nobody's)
StudentOf(c) == IF c \in HallTickets THEN c ELSE 0

\* the checks of the violation handler: the sender is a student, the session
\* exists, fewer than three recent incidents of the type
GateAccepts(c, s, t) == connType[c] = "student" /\ SessionExists(s) /\ ~RateLimited(s, t)

\* message security_violation / face_violation, up to and including the gate:
\* field and sender validation, session lookup, read of the recent incidents
WsViolationGate(c, s, t, sev) ==
  /\ connOpen[c]
  /\ Len(wsInflight) < MaxInflight
  /\ IF GateAccepts(c, s, t)
       THEN wsInflight' = Append(wsInflight,
                                 [sessionId |-> s, incidentType |-> t, severity |-> sev])
       ELSE UNCHANGED wsInflight                     \* return
  /\ UNCHANGED <<now, sessions, incidents, connOpen, connType, inbox, dbVars, response>>
  /\ UNCHANGED <<netVars, pageVars, histVars>>

\* the same handler for the next message of the exam page's socket
WsPageMessage ==
  /\ wsOut # <<>>
  /\ connOpen[PageConn]
  /\ Len(wsInflight) < MaxInflight
  /\ LET m == Head(wsOut) IN
       IF GateAccepts(PageConn, m.sessionId, m.incidentType)
         THEN wsInflight' = Append(wsInflight, m)
         ELSE UNCHANGED wsInflight                   \* return
  /\ wsOut' = Tail(wsOut)
  /\ UNCHANGED <<now, sessions, incidents, connOpen, connType, inbox, dbVars, response>>
  /\ UNCHANGED <<submitReqs, submitResps, pageVars, histVars>>

\* the rest of the handler without the forEach: the incident is stored and no
\* connection hears of it
WsViolationPersistSilent(i) ==
  /\ i \in 1..Len(wsInflight)
  /\ Cardinality(incidents) < MaxIncidents
  /\ LET m == wsInflight[i]
         inc == NewIncident(m.sessionId, m.incidentType, m.severity)
     IN incidents' = incidents \cup {inc}
  /\ wsInflight' = RemoveAt(wsInflight, i)
  /\ UNCHANGED <<now, sessions, connOpen, connType, inbox, dbVars, response>>
  /\ UNCHANGED <<netVars, pageVars, histVars>>

\* the rest of the handler: createSecurityIncident, then the broadcast
WsViolationPersist(i) ==
  /\ i \in 1..Len(wsInflight)
  /\ Cardinality(incidents) < MaxIncidents
  /\ LET m == wsInflight[i]
         inc == NewIncident(m.sessionId, m.incidentType, m.severity)
     IN /\ incidents' = incidents \cup {inc}
        /\ inbox' = Broadcast(inc.id)
  /\ wsInflight' = RemoveAt(wsInflight, i)
  /\ UNCHANGED <<now, sessions, connOpen, connType, dbVars, response>>
  /\ UNCHANGED <<netVars, pageVars, histVars>>

\* POST /api/security-incidents with a well-formed body
PostSecurityIncident(s, t, sev) ==
  /\ Cardinality(incidents) < MaxIncidents
  /\ IF SessionExists(s)
       THEN LET inc == NewIncident(s, t, sev)
            IN /\ incidents' = incidents \cup {inc}
               /\ inbox' = Broadcast(inc.id)
               /\ response' = Response(200, "")
       ELSE /\ UNCHANGED <<incidents, inbox>>        \* insert fails: catch
            /\ response' = Response(500, "")
  /\ UNCHANGED <<now, sessions, connOpen, connType, wsInflight, dbVars>>
  /\ UNCHANGED <<netVars, pageVars, histVars>>

\* the forEach when client.send fails for connection f.  wss.clients is
\* iterated in the order the connections were opened, here the order of their
\* numbers.  thrown: send raises the error, which ends the forEach and reaches
\* the handler's catch; otherwise the message to f is lost silently
BroadcastFailing(id, f, thrown) ==
  [c \in Conns |-> IF connOpen[c] /\ connType[c] = "admin" /\ c # f /\ (thrown => c < f)
                     THEN inbox[c] \cup {id} ELSE inbox[c]]

\* the rest of the WebSocket handler when the send to connection f fails; a
\* thrown error is logged by the catch of the handler
WsViolationPersistSendFails(i, f, thrown) ==
  /\ i \in 1..Len(wsInflight)
  /\ Cardinality(incidents) < MaxIncidents
  /\ connOpen[f] /\ connType[f] = "admin"
  /\ LET m == wsInflight[i]
         inc == NewIncident(m.sessionId, m.incidentType, m.severity)
     IN /\ incidents' = incidents \cup {inc}
        /\ inbox' = BroadcastFailing(inc.id, f, thrown)
  /\ wsInflight' = RemoveAt(wsInflight, i)
  /\ UNCHANGED <<now, sessions, connOpen, connType, dbVars, response>>
  /\ UNCHANGED <<netVars, pageVars, histVars>>

\* POST /api/security-incidents when the send to connection f fails; a thrown
\* error reaches the catch of the route, which answers 500
PostSecurityIncidentSendFails(s, t, sev, f, thrown) ==
  /\ Cardinality(incidents) < MaxIncidents
  /\ SessionExists(s)
  /\ connOpen[f] /\ connType[f] = "admin"
  /\ LET inc == NewIncident(s, t, sev)
     IN /\ incidents' = incidents \cup {inc}
        /\ inbox' = BroadcastFailing(inc.id, f, thrown)
  /\ response' = IF thrown THEN Response(500, "") ELSE Response(200, "")
  /\ UNCHANGED <<now, sessions, connOpen, connType, wsInflight, dbVars>>
  /\ UNCHANGED <<netVars, pageVars, histVars>>

\* admins that resolve incidents (user?.id of the incident page)
AdminIds == {"admin1", "admin2"}

\* bodies of PATCH /api/security-incidents/:id ("keep": the field is absent):
\* the incident page's resolve request, and bodies any admin client can send
IncidentPatches ==
  { [isResolved |-> "true", resolvedBy |-> a, severity |-> "keep"] : a \in AdminIds }
    \cup { [isResolved |-> "false", resolvedBy |-> "keep", severity |-> "keep"],
           [isResolved |-> "keep", resolvedBy |-> "keep", severity |-> "low"] }

\* storage.updateSecurityIncident(id, updates), updates.resolvedAt = new Date()
\* added by the route when updates.isResolved is truthy
IncidentUpdate(row, u) ==
  [row EXCEPT !.isResolved = IF u.isResolved = "keep" THEN @ ELSE u.isResolved = "true",
              !.resolvedBy = IF u.resolvedBy = "keep" THEN @ ELSE u.resolvedBy,
              !.severity = IF u.severity = "keep" THEN @ ELSE u.severity,
              !.resolvedAt = IF u.isResolved = "true" THEN now ELSE @]

\* PATCH /api/security-incidents/:id, by an admin
PatchSecurityIncident(id, u) ==
  /\ incidents' = {IF inc.id = id THEN IncidentUpdate(inc, u) ELSE inc : inc \in incidents}
  /\ response' = Response(200, "")
  /\ UNCHANGED <<now, sessions, connOpen, connType, inbox, wsInflight, dbVars>>
  /\ UNCHANGED <<netVars, pageVars, histVars>>

(* ============================ exam page ================================ *)

\* sendMessage of useWebSocket for the messages msgs of one handler run: the
\* violation message among them goes out on the page's socket if it is open
SendMessage(msgs, s) ==
  LET out == {m \in msgs : m.type \in {"security_violation", "face_violation"}} IN
    IF connOpen[PageConn] /\ out # {}
      THEN LET m == CHOOSE x \in out : TRUE
           IN Append(wsOut, [sessionId |-> s, incidentType |-> m.kind,
                             severity |-> m.severity])
      ELSE wsOut

\* the hall ticket in the page's localStorage
PageTicket == CHOOSE h \in HallTickets : \A g \in HallTickets : h <= g

NoFace == [faceDetected |-> FALSE, multipleFaces |-> FALSE, lookingAway |-> FALSE,
           confidence |-> 0]
Face(m, l) == [faceDetected |-> TRUE, multipleFaces |-> m, lookingAway |-> l,
               confidence |-> 9]
\* samples of the detector: no face, a face, a face looking away, several faces
Samples == {NoFace, Face(FALSE, FALSE), Face(FALSE, TRUE), Face(TRUE, FALSE)}

Msg(type, kind, severity, info) ==
  [type |-> type, kind |-> kind, severity |-> severity, info |-> info]

\* the values a render hands to the closures of handlers and effects
Snapshot ==
  [examSession |-> examSession, violationCount |-> violationCount,
   isPaused |-> isPaused, lookAwayCount |-> lookAwayCount,
   multipleFaceCount |-> multipleFaceCount, lastSnapshotTime |-> lastSnapshotTime,
   cameraActive |-> cameraActive, detection |-> detection]

\* dependency list of the face-monitoring effect
MonDeps(c) ==
  <<c.detection.multipleFaces, c.detection.lookingAway, c.detection.faceDetected,
    c.examSession, c.cameraActive, c.detection.confidence, c.lookAwayCount,
    c.multipleFaceCount, c.lastSnapshotTime>>

\* a re-render: handlers and effects capture the current state; the
\* face-monitoring effect is scheduled when one of its dependencies changed
Render ==
  /\ mounted
  /\ ~monPending
  /\ cl # Snapshot
  /\ cl' = Snapshot
  /\ monPending' = (MonDeps(Snapshot) # MonDeps(cl))
  /\ emitted' = {}
  /\ UNCHANGED <<mounted, examSession, questions, currentQuestion, answers,
                 timeRemaining, violationCount, isPaused, lookAwayCount,
                 multipleFaceCount, lastSnapshotTime, cameraActive, detection,
                 graceTimers>>
  /\ UNCHANGED <<serverVars, netVars, histVars>>

\* createSessionMutation.onSuccess with the row the server answered
OnSessionCreated ==
  /\ mounted
  /\ examSession = 0
  /\ SessionsOfTicket(PageTicket) # {}
  /\ LET id == CHOOSE i \in SessionsOfTicket(PageTicket) :
                 \A j \in SessionsOfTicket(PageTicket) : i <= j
     IN /\ examSession' = id
        /\ timeRemaining' = sessions[id].timeRemaining
  /\ emitted' = {}
  /\ UNCHANGED <<mounted, questions, currentQuestion, answers, violationCount, isPaused,
                 lookAwayCount, multipleFaceCount, lastSnapshotTime, cameraActive,
                 detection, cl, monPending, graceTimers>>
  /\ UNCHANGED <<serverVars, netVars, histVars>>

\* the questions query of the session resolves with n questions
QuestionsLoaded(n) ==
  /\ mounted
  /\ examSession # 0
  /\ questions = -1
  /\ questions' = n
  /\ emitted' = {}
  /\ UNCHANGED <<mounted, examSession, currentQuestion, answers, timeRemaining,
                 violationCount, isPaused, lookAwayCount, multipleFaceCount,
                 lastSnapshotTime, cameraActive, detection, cl, monPending,
                 graceTimers>>
  /\ UNCHANGED <<serverVars, netVars, histVars>>

\* empty question list: setTimeout(() => setLocation("/student/auth"), 3000)
LeavePage ==
  /\ mounted
  /\ questions = 0
  /\ mounted' = FALSE
  /\ emitted' = {}
  /\ UNCHANGED <<examSession, questions, currentQuestion, answers, timeRemaining,
                 violationCount, isPaused, lookAwayCount, multipleFaceCount,
                 lastSnapshotTime, cameraActive, detection, cl, monPending,
                 graceTimers>>
  /\ UNCHANGED <<serverVars, netVars, histVars>>

\* submitExam(): submitExamMutation.mutate() posts the answers of the session
SubmitExam ==
  /\ submitsIssued < MaxSubmits
  /\ examSession # 0
  /\ submitReqs' = Append(submitReqs, [id |-> examSession, answers |-> answers])
  /\ submitsIssued' = submitsIssued + 1
  /\ UNCHANGED <<submitResps, wsOut, sampleCounted, selected, browserEvents, gesture>>

\* the countdown's updater reaches zero at prev <= 1
TimerExpires(prev) == prev <= 1

\* a countdown guard that does not wait for the questions
TimerRunsUnloaded == timeRemaining > 0 /\ examSession # 0

\* guard of the countdown effect: an interval exists
TimerRuns == timeRemaining > 0 /\ examSession # 0 /\ questions > 0

\* one firing of the countdown interval (period 1000 ms; the render that
\* replaces the interval follows the state change within the same second)
TimerTick ==
  /\ mounted
  /\ TimerRuns
  /\ IF TimerExpires(timeRemaining)
       THEN /\ SubmitExam
            /\ timerSubmits' = timerSubmits + 1
            /\ timeRemaining' = 0
       ELSE /\ timeRemaining' = timeRemaining - 1
            /\ UNCHANGED <<netVars, histVars>>
  /\ emitted' = {}
  /\ UNCHANGED <<mounted, examSession, questions, currentQuestion, answers,
                 violationCount, isPaused, lookAwayCount, multipleFaceCount,
                 lastSnapshotTime, cameraActive, detection, cl, monPending,
                 graceTimers>>
  /\ UNCHANGED serverVars

\* a policy that pauses at the second violation too
PausesUpToSecond(n) == n <= 2

\* violation policy: the count that pauses (newViolationCount === 1)
PausesAt(n) == n = 1

\* a policy that auto-submits only beyond the third violation
AutoSubmitsAfterThird(n) == n > 3

\* violation policy: the counts that auto-submit (newViolationCount >= 3)
AutoSubmitsAt(n) == n >= 3

PolicyMsgs(kind, n) ==
  IF PausesAt(n) THEN {Msg("policy_update", kind, "", "paused")}
  ELSE IF AutoSubmitsAt(n) THEN {Msg("policy_update", kind, "", "auto_submitted")}
  ELSE {Msg("student_status", kind, "", "warning")}

\* handleSecurityViolation(kind, description, "medium")
HandleSecurityViolation(kind) ==
  /\ cl.examSession # 0
  /\ cl.violationCount < MaxViolations
  /\ browserEvents < MaxViolations
  /\ graceTimers < MaxSubmits
  /\ LET n == cl.violationCount + 1 IN
       /\ violationCount' = n
       /\ emitted' = {Msg("security_violation", kind, "medium", "")} \cup PolicyMsgs(kind, n)
       /\ isPaused' = IF PausesAt(n) THEN TRUE ELSE isPaused
       /\ graceTimers' = IF ~PausesAt(n) /\ AutoSubmitsAt(n)
                           THEN graceTimers + 1 ELSE graceTimers
  /\ UNCHANGED <<mounted, examSession, questions, currentQuestion, answers,
                 timeRemaining, lookAwayCount, multipleFaceCount, lastSnapshotTime,
                 cameraActive, detection, cl, monPending>>
  /\ wsOut' = SendMessage(emitted', cl.examSession)
  /\ browserEvents' = browserEvents + 1
  /\ UNCHANGED <<submitsIssued, timerSubmits, sampleCounted, selected>>
  /\ UNCHANGED <<serverVars, submitReqs, submitResps>>

\* one physical action of the student
UserActions == {"escape", "blocked_key", "tab_switch"}

DomEvent(type, key) == [type |-> type, key |-> key]

\* the DOM events of one action, in dispatch order: a key press is a keydown
\* and a keyup (keypress is not fired for Escape or function keys); leaving
\* the tab blurs the window and hides the document
DomEvents(a) ==
  CASE a = "escape" -> <<DomEvent("keydown", "Escape"), DomEvent("keyup", "Escape")>>
    [] a = "blocked_key" -> <<DomEvent("keydown", "F12"), DomEvent("keyup", "F12")>>
    [] a = "tab_switch" -> <<DomEvent("blur", ""), DomEvent("visibilitychange", "")>>

\* the violation the registered listeners report for a DOM event ("": none).
\* Key events reach the window's capture listener first; blockEscKey stops
\* immediate propagation and handleKeyDown stops propagation, so the
\* document's listener does not run for an event the window's reported
ViolationOf(ev) ==
  CASE ev.type = "keydown" -> "key_violation"        \* handleKeyDown: Escape or blockedKeys
    [] ev.type = "keyup" -> IF ev.key = "Escape" THEN "key_violation" ELSE ""
    [] ev.type = "blur" -> "window_blur"              \* handleWindowBlur
    [] ev.type = "visibilitychange" -> "tab_switch"   \* handleVisibilityChange, hidden

\* the student presses a key or leaves the tab: the browser queues the events
UserAction(a) ==
  /\ mounted
  /\ cl.examSession # 0
  /\ gesture.events = <<>>
  /\ gesture' = [events |-> DomEvents(a), base |-> violationCount]
  /\ emitted' = {}
  /\ UNCHANGED <<mounted, examSession, questions, currentQuestion, answers,
                 timeRemaining, violationCount, isPaused, lookAwayCount,
                 multipleFaceCount, lastSnapshotTime, cameraActive, detection, cl,
                 monPending, graceTimers>>
  /\ UNCHANGED <<submitsIssued, timerSubmits, sampleCounted, selected, browserEvents>>
  /\ UNCHANGED <<serverVars, netVars>>

\* the browser dispatches the next DOM event of the action to the listeners
DispatchDom ==
  /\ mounted
  /\ gesture.events # <<>>
  /\ gesture' = [gesture EXCEPT !.events = Tail(@)]
  /\ LET kind == ViolationOf(Head(gesture.events)) IN
       IF kind # ""
         THEN HandleSecurityViolation(kind)
         ELSE /\ emitted' = {}
              /\ UNCHANGED <<mounted, examSession, questions, currentQuestion, answers,
                             timeRemaining, violationCount, isPaused, lookAwayCount,
                             multipleFaceCount, lastSnapshotTime, cameraActive,
                             detection, cl, monPending, graceTimers>>
              /\ UNCHANGED <<submitsIssued, timerSubmits, sampleCounted, selected,
                             browserEvents>>
              /\ UNCHANGED <<serverVars, netVars>>

\* fullscreenchange (exit), visibilitychange (hidden), blur, blocked keydown
BrowserEvent(kind) ==
  /\ mounted
  /\ HandleSecurityViolation(kind)
  /\ UNCHANGED gesture

\* resumeExam, the button of the rendered pause overlay
ResumeExam ==
  /\ mounted
  /\ cl.isPaused
  /\ isPaused' = FALSE
  /\ emitted' = {}
  /\ UNCHANGED <<mounted, examSession, questions, currentQuestion, answers,
                 timeRemaining, violationCount, lookAwayCount, multipleFaceCount,
                 lastSnapshotTime, cameraActive, detection, cl, monPending,
                 graceTimers>>
  /\ UNCHANGED <<serverVars, netVars, histVars>>

\* the Submit Exam buttons of the rendered question page; the pause overlay
\* (fixed inset-0 z-50) covers them from the commit of isPaused on
SubmitClick ==
  /\ mounted
  /\ cl.examSession # 0
  /\ ~isPaused
  /\ questions > 0
  /\ SubmitExam
  /\ emitted' = {}
  /\ UNCHANGED timerSubmits
  /\ UNCHANGED <<mounted, examSession, questions, currentQuestion, answers,
                 timeRemaining, violationCount, isPaused, lookAwayCount,
                 multipleFaceCount, lastSnapshotTime, cameraActive, detection, cl,
                 monPending, graceTimers>>
  /\ UNCHANGED serverVars

\* an updater that keeps the first answer of a question
AnswerKeepFirst(prev, q, a) == IF prev[q] = NoAnswer THEN [prev EXCEPT ![q] = a] ELSE prev

\* the updater of handleAnswerChange: {...prev, [questionIndex]: answer}
AnswerUpdate(prev, q, a) == [prev EXCEPT ![q] = a]

\* onChange of a radio input of the rendered question:
\* handleAnswerChange(currentQuestion, optionLetter).  The pause overlay covers
\* the inputs for the pointer only: the focused radio group still takes the
\* arrow keys, which the key listeners do not block.
HandleAnswerChange(a) ==
  /\ mounted
  /\ cl.examSession # 0
  /\ questions > 0
  /\ answers' = AnswerUpdate(answers, currentQuestion, a)
  /\ selected' = [selected EXCEPT ![currentQuestion] = a]
  /\ emitted' = {}
  /\ UNCHANGED <<mounted, examSession, questions, currentQuestion, timeRemaining,
                 violationCount, isPaused, lookAwayCount, multipleFaceCount,
                 lastSnapshotTime, cameraActive, detection, cl, monPending,
                 graceTimers>>
  /\ UNCHANGED <<submitsIssued, timerSubmits, sampleCounted, browserEvents, gesture>>
  /\ UNCHANGED <<serverVars, netVars>>

\* a navigation that moves without looking at the ends of the question list
NavigateUnbounded(direction, current, questionsLength) ==
  IF direction = "prev" THEN current - 1 ELSE current + 1

\* the question navigateQuestion(direction) moves to
NavigateTarget(direction, current, questionsLength) ==
  IF direction = "prev" /\ current > 1 THEN current - 1
  ELSE IF direction = "next" /\ current < questionsLength THEN current + 1
  ELSE current

\* the Previous and Next buttons: navigateQuestion(direction)
NavigateQuestion(direction) ==
  /\ mounted
  /\ cl.examSession # 0
  /\ questions > 0
  /\ currentQuestion' = NavigateTarget(direction, currentQuestion, questions)
  /\ emitted' = {}
  /\ UNCHANGED <<mounted, examSession, questions, answers, timeRemaining,
                 violationCount, isPaused, lookAwayCount, multipleFaceCount,
                 lastSnapshotTime, cameraActive, detection, cl, monPending,
                 graceTimers>>
  /\ UNCHANGED <<serverVars, netVars, histVars>>

\* a button of the question grid: setCurrentQuestion(questionNum)
GoToQuestion(n) ==
  /\ mounted
  /\ cl.examSession # 0
  /\ n \in 1..questions
  /\ currentQuestion' = n
  /\ emitted' = {}
  /\ UNCHANGED <<mounted, examSession, questions, answers, timeRemaining,
                 violationCount, isPaused, lookAwayCount, multipleFaceCount,
                 lastSnapshotTime, cameraActive, detection, cl, monPending,
                 graceTimers>>
  /\ UNCHANGED <<serverVars, netVars, histVars>>

\* setTimeout(() => submitExam(), 2000) fires; it is never cleared
GraceTimeout ==
  /\ graceTimers > 0
  /\ graceTimers' = graceTimers - 1
  /\ SubmitExam
  /\ emitted' = {}
  /\ UNCHANGED timerSubmits
  /\ UNCHANGED <<mounted, examSession, questions, currentQuestion, answers,
                 timeRemaining, violationCount, isPaused, lookAwayCount,
                 multipleFaceCount, lastSnapshotTime, cameraActive, detection, cl,
                 monPending>>
  /\ UNCHANGED serverVars

\* submitExamMutation.onSuccess: leave the exam page
OnSubmitSuccess ==
  /\ submitResps > 0
  /\ submitResps' = submitResps - 1
  /\ mounted' = FALSE
  /\ emitted' = {}
  /\ UNCHANGED <<examSession, questions, currentQuestion, answers, timeRemaining,
                 violationCount, isPaused, lookAwayCount, multipleFaceCount,
                 lastSnapshotTime, cameraActive, detection, cl, monPending,
                 graceTimers>>
  /\ UNCHANGED <<serverVars, submitReqs, wsOut, histVars>>

(* --------------------------- face-sample path -------------------------- *)

\* startCamera() succeeds
StartCamera ==
  /\ mounted
  /\ ~cameraActive
  /\ cameraActive' = TRUE
  /\ emitted' = {}
  /\ UNCHANGED <<mounted, examSession, questions, currentQuestion, answers,
                 timeRemaining, violationCount, isPaused, lookAwayCount,
                 multipleFaceCount, lastSnapshotTime, detection, cl, monPending,
                 graceTimers>>
  /\ UNCHANGED <<serverVars, netVars, histVars>>

\* useFaceDetection: detectFaces stores a new sample (about once a second)
NewSample(s) ==
  /\ mounted
  /\ cameraActive
  /\ detection' = s
  /\ sampleCounted' = FALSE
  /\ emitted' = {}
  /\ UNCHANGED <<mounted, examSession, questions, currentQuestion, answers,
                 timeRemaining, violationCount, isPaused, lookAwayCount,
                 multipleFaceCount, lastSnapshotTime, cameraActive, cl, monPending,
                 graceTimers>>
  /\ UNCHANGED <<serverVars, netVars, submitsIssued, timerSubmits, selected, browserEvents, gesture>>

\* what the looking-away branch sends at the count n
LookAwayMsgs(n) ==
  IF n = 1 THEN {Msg("ui_warning", "looking_away", "", "")}
  ELSE IF n = 3 THEN {Msg("face_violation", "looking_away_repeated", "high", "")}
  ELSE IF n > 3 THEN {Msg("POST /api/security-incidents", "looking_away", "medium", "")}
  ELSE {}

\* the lightweight status update of handleMonitoring is due
StatusDue(c) == c.detection.faceDetected /\ now - c.lastSnapshotTime > StatusPeriodMs

StatusMsgs(c) == IF StatusDue(c) THEN {Msg("student_status", "", "", "status")} ELSE {}

\* a face-monitoring effect whose multiple-faces branch pauses the exam
HandleMonitoringPausing ==
  /\ mounted
  /\ monPending
  /\ monPending' = FALSE
  /\ IF cl.examSession = 0 \/ ~cl.cameraActive
       THEN /\ emitted' = {}
            /\ UNCHANGED <<lookAwayCount, multipleFaceCount, lastSnapshotTime,
                           sampleCounted, isPaused>>
       ELSE
         /\ IF cl.detection.multipleFaces
              THEN /\ multipleFaceCount' = cl.multipleFaceCount + 1
                   /\ emitted' = {Msg("face_violation", "multiple_faces", "critical", ""),
                                  Msg("ui_warning", "multiple_faces", "", "")}
                                 \cup StatusMsgs(cl)
                   /\ isPaused' = TRUE
                   /\ sampleCounted' = TRUE
                   /\ UNCHANGED lookAwayCount
              ELSE IF cl.detection.lookingAway
                THEN /\ lookAwayCount' = cl.lookAwayCount + 1
                     /\ emitted' = LookAwayMsgs(cl.lookAwayCount + 1) \cup StatusMsgs(cl)
                     /\ sampleCounted' = TRUE
                     /\ UNCHANGED <<multipleFaceCount, isPaused>>
                ELSE /\ lookAwayCount' = IF cl.detection.faceDetected /\ cl.lookAwayCount > 0
                                           THEN 0 ELSE lookAwayCount
                     /\ emitted' = StatusMsgs(cl)
                     /\ UNCHANGED <<multipleFaceCount, sampleCounted, isPaused>>
         /\ lastSnapshotTime' = IF StatusDue(cl) THEN now ELSE lastSnapshotTime
  /\ UNCHANGED <<mounted, examSession, questions, currentQuestion, answers,
                 timeRemaining, violationCount, cameraActive, detection, cl,
                 graceTimers>>
  /\ wsOut' = SendMessage(emitted', cl.examSession)
  /\ UNCHANGED <<serverVars, submitReqs, submitResps, submitsIssued, timerSubmits, selected,
                 browserEvents, gesture>>

\* the face-monitoring effect: handleMonitoring() with the values of its render
HandleMonitoring ==
  /\ mounted
  /\ monPending
  /\ monPending' = FALSE
  /\ IF cl.examSession = 0 \/ ~cl.cameraActive
       THEN /\ emitted' = {}
            /\ UNCHANGED <<lookAwayCount, multipleFaceCount, lastSnapshotTime,
                           sampleCounted>>
       ELSE
         /\ IF cl.detection.multipleFaces
              THEN /\ multipleFaceCount' = cl.multipleFaceCount + 1
                   /\ emitted' = {Msg("face_violation", "multiple_faces", "critical", ""),
                                  Msg("ui_warning", "multiple_faces", "", "")}
                                 \cup StatusMsgs(cl)
                   /\ sampleCounted' = TRUE
                   /\ UNCHANGED lookAwayCount
              ELSE IF cl.detection.lookingAway
                THEN /\ lookAwayCount' = cl.lookAwayCount + 1
                     /\ emitted' = LookAwayMsgs(cl.lookAwayCount + 1) \cup StatusMsgs(cl)
                     /\ sampleCounted' = TRUE
                     /\ UNCHANGED multipleFaceCount
                ELSE /\ lookAwayCount' = IF cl.detection.faceDetected /\ cl.lookAwayCount > 0
                                           THEN 0 ELSE lookAwayCount
                     /\ emitted' = StatusMsgs(cl)
                     /\ UNCHANGED <<multipleFaceCount, sampleCounted>>
         /\ lastSnapshotTime' = IF StatusDue(cl) THEN now ELSE lastSnapshotTime
  /\ UNCHANGED <<mounted, examSession, questions, currentQuestion, answers,
                 timeRemaining, violationCount, isPaused, cameraActive, detection, cl,
                 graceTimers>>
  /\ wsOut' = SendMessage(emitted', cl.examSession)
  /\ UNCHANGED <<serverVars, submitReqs, submitResps, submitsIssued, timerSubmits, selected,
                 browserEvents, gesture>>

(* ============================ specifications =========================== *)

\* no user action has been made yet
NoGesture == [events |-> <<>>, base |-> -1]

Init ==
  /\ now = ClockStep
  /\ sessions = <<>>
  /\ incidents = {}
  /\ connOpen = [c \in Conns |-> FALSE]
  /\ connType = [c \in Conns |-> "none"]
  /\ inbox = [c \in Conns |-> {}]
  /\ wsInflight = <<>>
  /\ users = {}
  /\ questionBank = MaxQuestions
  /\ activeTickets = HallTickets
  /\ creating = <<>>
  /\ relayed = [c \in Conns |-> {}]
  /\ response = NoResponse
  /\ submitReqs = <<>>
  /\ wsOut = <<>>
  /\ submitResps = 0
  /\ mounted = TRUE
  /\ examSession = 0
  /\ questions = -1
  /\ currentQuestion = 1
  /\ answers = EmptySheet
  /\ timeRemaining = 0
  /\ violationCount = 0
  /\ isPaused = FALSE
  /\ lookAwayCount = 0
  /\ multipleFaceCount = 0
  /\ lastSnapshotTime = 0
  /\ cameraActive = FALSE
  /\ detection = NoFace
  /\ cl = Snapshot
  /\ monPending = FALSE
  /\ graceTimers = 0
  /\ emitted = {}
  /\ submitsIssued = 0
  /\ timerSubmits = 0
  /\ sampleCounted = FALSE
  /\ selected = EmptySheet
  /\ browserEvents = 0
  /\ gesture = NoGesture

\* the exam page of one student with the server's session routes: creation,
\* countdown, browser violations, pause and resume, submission
Next ==
  \/ \E body \in CreateBodies : PostExamSessions(PageTicket, body)
  \/ OnSessionCreated
  \/ \E n \in {0, MaxQuestions} : QuestionsLoaded(n)
  \/ LeavePage
  \/ Render
  \/ TimerTick
  \/ \E kind \in BrowserKinds : BrowserEvent(kind)
  \/ ResumeExam
  \/ SubmitClick
  \/ GraceTimeout
  \/ \E i \in 1..MaxSubmits : PostSubmit(i)
  \/ OnSubmitSuccess
  \/ HandleMonitoring

Spec == Init /\ [][Next]_vars

\* the violation policy of the exam page: browser events and face samples
\* side by side, the grace timer and the submission it issues
PolicyNext ==
  \/ \E body \in CreateBodies : body.timeRemaining = MaxTime /\ PostExamSessions(PageTicket, body)
  \/ OnSessionCreated
  \/ Render
  \/ \E kind \in BrowserKinds :
       /\ AutoSubmitsAt(cl.violationCount + 1) => submitsIssued + graceTimers < MaxAutoSubmits
       /\ BrowserEvent(kind)
  \/ ResumeExam
  \/ GraceTimeout
  \/ \E i \in 1..MaxSubmits : PostSubmit(i)
  \/ OnSubmitSuccess
  \/ StartCamera
  \/ \E s \in Samples : NewSample(s)
  \/ (cl.lookAwayCount + cl.multipleFaceCount < MaxFaceRuns /\ HandleMonitoring)

PolicySpec == Init /\ [][PolicyNext]_vars

\* setTimeout callbacks fire and the server answers the requests it receives
FairPolicySpec ==
  /\ PolicySpec
  /\ WF_vars(GraceTimeout)
  /\ WF_vars(\E i \in 1..MaxSubmits : PostSubmit(i))

\* the student answers, navigates and submits; a first violation pauses the page
AnswerNext ==
  \/ \E body \in CreateBodies : body.timeRemaining = MaxTime /\ PostExamSessions(PageTicket, body)
  \/ OnSessionCreated
  \/ QuestionsLoaded(MaxQuestions)
  \/ Render
  \/ HandleMonitoring
  \/ \E a \in Letters : HandleAnswerChange(a)
  \/ \E direction \in {"prev", "next"} : NavigateQuestion(direction)
  \/ \E n \in Questions : GoToQuestion(n)
  \/ \E kind \in BrowserKinds : (browserEvents = 0 /\ BrowserEvent(kind))
  \/ ResumeExam
  \/ (submitsIssued < MaxAnswerSubmits /\ SubmitClick)

AnswerSpec == Init /\ [][AnswerNext]_vars

\* hall-ticket ids a request can name; 0 is the id of no ticket
TicketIds == {0} \cup HallTickets

\* session creation and submission under valid and invalid requests, with the
\* admin's changes of tickets and questions
CreateNext ==
  \/ \E h \in TicketIds, body \in {b \in CreateBodies : b.timeRemaining = MaxTime} \cup {MalformedBody} :
       PostExamSessions(h, body)
  \/ \E h \in HallTickets, b \in BOOLEAN : PatchHallTicket(h, b)
  \/ PostQuestion
  \/ DeleteQuestion
  \/ \E id \in SessionIds : SubmitRequest(id, EmptySheet)
  \/ \E i \in 1..MaxSubmits : PostSubmit(i)
  \/ \E id \in SessionIds : PatchExamSession(id, [status |-> "keep", timeRemaining |-> MaxTime])

CreateSpec == Init /\ [][CreateNext]_vars

\* the server's exam-session routes under arbitrary requests
SessionNext ==
  \/ \E h \in HallTickets, body \in CreateBodies : PostExamSessions(h, body)
  \/ \E id \in SessionIds, a \in Payloads : SubmitRequest(id, a)
  \/ \E i \in 1..MaxSubmits : PostSubmit(i)
  \/ \E id \in SessionIds, u \in Patches : PatchExamSession(id, u)
  \/ AdvanceClock

SessionSpec == Init /\ [][SessionNext]_vars

\* the role a connection declares in the sink's runs: the first connection is
\* a student's, the others are admins'
RoleOf(c) == IF c = CHOOSE d \in Conns : \A e \in Conns : d <= e THEN "student" ELSE "admin"

\* the server's incident sink and fan-out under the reports of one session
SinkNext ==
  \/ \E body \in CreateBodies :
       body.timeRemaining = MaxTime /\ PostExamSessions(PageTicket, body)
  \/ \E c \in Conns : Connect(c)
  \/ \E c \in Conns : Close(c)
  \/ \E c \in Conns : Auth(c, RoleOf(c))
  \/ \E c \in Conns, s \in SessionIds, t \in ReportTypes, sev \in ReportSeverities :
       WsViolationGate(c, s, t, sev)
  \/ \E i \in 1..MaxInflight : WsViolationPersist(i)
  \/ \E s \in SessionIds, t \in ReportTypes, sev \in ReportSeverities :
       PostSecurityIncident(s, t, sev)
  \/ AdvanceClock

SinkSpec == Init /\ [][SinkNext]_vars

\* the fan-out of incidents to connections that open, authenticate and close
FanoutNext ==
  \/ \E body \in CreateBodies :
       body.timeRemaining = MaxTime /\ PostExamSessions(PageTicket, body)
  \/ \E c \in Conns : Connect(c)
  \/ \E c \in Conns : Close(c)
  \/ \E c \in Conns, t \in {"student", "admin"} : Auth(c, t)
  \/ \E c \in Conns, s \in SessionIds :
       /\ Cardinality(incidents) + Len(wsInflight) < MaxBroadcasts
       /\ WsViolationGate(c, s, "window_blur", "medium")
  \/ \E i \in 1..MaxInflight : WsViolationPersist(i)
  \/ \E s \in SessionIds :
       /\ Cardinality(incidents) + Len(wsInflight) < MaxBroadcasts
       /\ PostSecurityIncident(s, "window_blur", "medium")

FanoutSpec == Init /\ [][FanoutNext]_vars

\* the fan-out with sends that fail; connections open in the order of their
\* numbers, so that the numbers give the iteration order of wss.clients
FailNext ==
  \/ \E body \in CreateBodies :
       body.timeRemaining = MaxTime /\ PostExamSessions(PageTicket, body)
  \/ \E c \in Conns : ((\A d \in Conns : d > c => ~connOpen[d]) /\ Connect(c))
  \/ \E c \in Conns : Close(c)
  \/ \E c \in Conns, t \in {"student", "admin"} : Auth(c, t)
  \/ \E c \in Conns, s \in SessionIds :
       /\ Cardinality(incidents) + Len(wsInflight) < MaxBroadcasts
       /\ WsViolationGate(c, s, "window_blur", "medium")
  \/ \E i \in 1..MaxInflight : WsViolationPersist(i)
  \/ \E i \in 1..MaxInflight, f \in Conns, thrown \in BOOLEAN :
       WsViolationPersistSendFails(i, f, thrown)
  \/ \E s \in SessionIds :
       /\ Cardinality(incidents) + Len(wsInflight) < MaxBroadcasts
       /\ PostSecurityIncident(s, "window_blur", "medium")
  \/ \E s \in SessionIds, f \in Conns, thrown \in BOOLEAN :
       /\ Cardinality(incidents) + Len(wsInflight) < MaxBroadcasts
       /\ PostSecurityIncidentSendFails(s, "window_blur", "medium", f, thrown)

FailSpec == Init /\ [][FailNext]_vars

\* the exam page reports its browser violations over its socket; the page
\* sends no auth message, other clients authenticate and report as well
ReportNext ==
  \/ \E body \in CreateBodies :
       body.timeRemaining = MaxTime /\ PostExamSessions(PageTicket, body)
  \/ OnSessionCreated
  \/ Render
  \/ HandleMonitoring
  \/ \E c \in Conns : Connect(c)
  \/ \E c \in Conns \ {PageConn}, t \in {"student", "admin"} : Auth(c, t)
  \/ \E kind \in BrowserKinds : (browserEvents < MaxBroadcasts /\ BrowserEvent(kind))
  \/ WsPageMessage
  \/ \E c \in Conns \ {PageConn}, s \in SessionIds :
       /\ Cardinality(incidents) + Len(wsInflight) < MaxBroadcasts
       /\ WsViolationGate(c, s, "window_blur", "medium")
  \/ \E i \in 1..MaxInflight : WsViolationPersist(i)

ReportSpec == Init /\ [][ReportNext]_vars

\* incidents reported for one session and resolved by admins
ResolveNext ==
  \/ \E body \in CreateBodies :
       body.timeRemaining = MaxTime /\ PostExamSessions(PageTicket, body)
  \/ \E s \in SessionIds :
       /\ Cardinality(incidents) < MaxBroadcasts
       /\ PostSecurityIncident(s, "window_blur", "medium")
  \/ \E id \in 1..MaxIncidents, u \in IncidentPatches : PatchSecurityIncident(id, u)
  \/ AdvanceClock

ResolveSpec == Init /\ [][ResolveNext]_vars

\* the face-sample path of the exam page
FaceNext ==
  \/ \E body \in CreateBodies : body.timeRemaining = MaxTime /\ PostExamSessions(PageTicket, body)
  \/ OnSessionCreated
  \/ StartCamera
  \/ \E s \in Samples : NewSample(s)
  \/ Render
  \/ (cl.lookAwayCount < MaxCount /\ cl.multipleFaceCount < MaxCount /\ HandleMonitoring)
  \/ AdvanceClock

FaceSpec == Init /\ [][FaceNext]_vars

\* the WebSocket violation path alone: a student's and admins' connections,
\* reports that pass the gate and reports that the gate drops
ViolationNext ==
  \/ \E body \in CreateBodies :
       body.timeRemaining = MaxTime /\ PostExamSessions(PageTicket, body)
  \/ \E c \in Conns : Connect(c)
  \/ \E c \in Conns : Close(c)
  \/ \E c \in Conns : Auth(c, RoleOf(c))
  \/ \E c \in Conns, s \in SessionIds : WsViolationGate(c, s, "window_blur", "medium")
  \/ \E i \in 1..MaxInflight : WsViolationPersist(i)

ViolationSpec == Init /\ [][ViolationNext]_vars

\* session creation under the bodies the page sends before and after its
\* hall-ticket data is loaded, and under bodies of other clients
BodyNext ==
  \/ \E h \in TicketIds, body \in AnyBodies : PostExamSessions(h, body)
  \/ \E h \in HallTickets : PatchHallTicket(h, FALSE)

BodySpec == Init /\ [][BodyNext]_vars

\* creation requests whose awaits interleave, with the admin's changes of
\* the questions
RaceNext ==
  \/ \E h \in TicketIds, body \in CreateBodies :
       body.timeRemaining = MaxTime /\ PostExamSessionsCheck(h, body)
  \/ \E i \in 1..MaxInflight : PostExamSessionsInsert(i)
  \/ PostQuestion
  \/ DeleteQuestion

RaceSpec == Init /\ [][RaceNext]_vars

\* the relayed types some connection holds
RelayedTypes == UNION {relayed[d] : d \in Conns}

\* every broadcast of the server: incidents of both routes for the first
\* session and the messages relayed for the exam page's connection, to
\* connections that open, authenticate, re-authenticate and close
BroadcastNext ==
  \/ \E body \in CreateBodies :
       body.timeRemaining = MaxTime /\ PostExamSessions(PageTicket, body)
  \/ \E c \in Conns : Connect(c)
  \/ \E c \in Conns : Close(c)
  \/ \E c \in Conns, t \in {"student", "admin"} : Auth(c, t)
  \/ \E c \in Conns, type \in RelayTypes, complete \in BOOLEAN :
       /\ c = PageConn
       /\ ~complete => type = "policy_update"
       /\ Cardinality(incidents) + Len(wsInflight)
            + Cardinality(RelayedTypes \cup {RelayAs(type)}) <= MaxBroadcasts
       /\ WsRelay(c, type, complete)
  \/ \E c \in Conns :
       /\ Cardinality(incidents) + Len(wsInflight) + Cardinality(RelayedTypes) < MaxBroadcasts
       /\ WsViolationGate(c, 1, "window_blur", "medium")
  \/ \E i \in 1..MaxInflight : WsViolationPersist(i)
  \/ /\ Cardinality(incidents) + Len(wsInflight) + Cardinality(RelayedTypes) < MaxBroadcasts
     /\ PostSecurityIncident(1, "window_blur", "medium")

BroadcastSpec == Init /\ [][BroadcastNext]_vars

\* the student's key presses and tab switches on the rendered exam page
PressNext ==
  \/ \E body \in CreateBodies : body.timeRemaining = MaxTime /\ PostExamSessions(PageTicket, body)
  \/ OnSessionCreated
  \/ Render
  \/ HandleMonitoring
  \/ \E a \in UserActions : UserAction(a)
  \/ DispatchDom
  \/ ResumeExam
  \/ GraceTimeout

PressSpec == Init /\ [][PressNext]_vars

(* =============================== claims ================================ *)

\* incidents of the session and type of inc in the 60 s that end at inc
InWindowOf(inc) ==
  {o \in incidents : /\ o.sessionId = inc.sessionId
                     /\ o.incidentType = inc.incidentType
                     /\ o.createdAt <= inc.createdAt
                     /\ o.createdAt > inc.createdAt - RateWindowMs}

\* C1: for every session and incident type, at most 3 persisted incidents lie
\* in any trailing 60-second window, whichever path reported them.
C1_AtMostThreePerWindow ==
  \A inc \in incidents : Cardinality(InWindowOf(inc)) <= RateLimit

\* the page's session as the state machine sees it: the stored row once it is
\* submitted, else the pause overlay's flag
SessionStatus ==
  IF examSession = 0 THEN "not_started"
  ELSE IF sessions[examSession].status \in Terminal THEN "submitted"
  ELSE IF isPaused THEN "paused"
  ELSE "in_progress"

AllowedEdges ==
  { <<"not_started", "in_progress">>, <<"in_progress", "paused">>,
    <<"paused", "in_progress">>, <<"in_progress", "submitted">> }

\* C2: the session's status changes only along in_progress -> paused,
\* paused -> in_progress and in_progress -> submitted; a paused session is never
\* submitted without a resume, and nothing changes it once submitted.
C2_OnlyAllowedEdges ==
  [][SessionStatus' # SessionStatus => <<SessionStatus, SessionStatus'>> \in AllowedEdges]_vars

\* the fields of a stored session that its submission fixes
Frozen(row) == <<row.status, row.answers, row.endTime, row.timeRemaining>>

\* C3: once a stored session is submitted or completed, no later submit or
\* PATCH request changes its status, answers, endTime or timeRemaining.
C3_TerminalRowsFrozen ==
  [][\A id \in 1..Len(sessions) :
        sessions[id].status \in Terminal => Frozen(sessions'[id]) = Frozen(sessions[id])]_vars

\* C4: a submit request that reaches a session already submitted is a no-op:
\* the stored answers and endTime stay those of the first submission.
C4_SecondSubmitNoOp ==
  [][Len(submitReqs') < Len(submitReqs) =>
       \A id \in 1..Len(sessions) :
          sessions[id].status = "submitted" =>
            /\ sessions'[id].answers = sessions[id].answers
            /\ sessions'[id].endTime = sessions[id].endTime]_vars

\* C5: timeRemaining never increases while the session is in progress, stays
\* unchanged while it is paused, and no tick happens once it has left
\* in_progress.
C5_TimerFollowsStatus ==
  [][/\ SessionStatus = "in_progress" => timeRemaining' <= timeRemaining
     /\ SessionStatus \in {"paused", "submitted"} => timeRemaining' = timeRemaining]_vars

\* C6: the step that brings timeRemaining to 0 issues a submission of the
\* session, and that submission is the session's only one: the countdown does
\* not submit a session for which a submission has already been issued.
C6_ZeroSubmitsOnce ==
  [][(examSession # 0 /\ timeRemaining > 0 /\ timeRemaining' = 0) =>
       (submitsIssued = 0 /\ submitsIssued' = 1)]_vars

\* C7: the paused flag is raised only by the step that takes the browser
\* violation counter from 0 to 1; the counter never decreases, so no later
\* violation, face sample or other step pauses the session again.
C7_PausedOnlyAtFirstViolation ==
  [][/\ (~isPaused /\ isPaused') => (violationCount = 0 /\ violationCount' = 1)
     /\ violationCount' >= violationCount]_vars

\* C7 witness: a resumed session that has taken further browser violations and
\* face samples and is not paused
C7_ResumedAndViolatedAgain ==
  /\ ~isPaused
  /\ violationCount >= 2
  /\ lookAwayCount + multipleFaceCount > 0

\* the stored session of the page is submitted
Submitted == examSession # 0 /\ sessions[examSession].status = "submitted"

FaceSampleStep == detection' # detection \/ (monPending /\ ~monPending')

\* C9: a step that processes a face sample leaves violationCount, the paused
\* flag and the submission state (scheduled, issued and stored) unchanged.
C9_FaceSamplesLeavePolicyAlone ==
  [][FaceSampleStep =>
       UNCHANGED <<violationCount, isPaused, graceTimers, submitReqs, submitResps,
                   submitsIssued, sessions>>]_vars

\* C9 witness: multiple-faces and looking-away samples were counted in a
\* session that is neither paused nor submitted
C9_FaceCountsWithoutPause ==
  /\ examSession # 0
  /\ multipleFaceCount > 0
  /\ lookAwayCount > 0
  /\ violationCount = 0
  /\ ~isPaused
  /\ submitsIssued = 0

\* C10: lookAwayCount advances once per looking-away sample: a step that
\* raises it counts a sample that has not been counted before.
C10_OneCountPerSample ==
  [][lookAwayCount' > lookAwayCount => ~sampleCounted]_vars

\* the violation the multiple-faces branch reports
MultipleFacesMsg == Msg("face_violation", "multiple_faces", "critical", "")

\* C11: a multiple_faces violation is emitted once per sample with
\* multipleFaces = true, that is, only for a sample not reported before, and
\* every multiple_faces violation carries severity critical.
C11_OneCriticalPerSample ==
  [][(monPending /\ ~monPending') =>
       /\ MultipleFacesMsg \in emitted' => (cl.detection.multipleFaces /\ ~sampleCounted)
       /\ \A m \in emitted' :
            (m.type = "face_violation" /\ m.kind = "multiple_faces") => m.severity = "critical"]_vars

\* a creation request of CreateNext is answered in this step
CreationStep(h, body) == PostExamSessions(h, body)

\* C14: a creation request answered with the no-questions error creates no
\* exam session and leaves no other record behind: the sessions and the users
\* are as they were before the request
C14_NoQuestionsLeavesNothing ==
  [][\A h \in TicketIds, body \in CreateBodies :
       (CreationStep(h, body) /\ response'.error = "NO_QUESTIONS_IN_SYSTEM")
         => (sessions' = sessions /\ users' = users)]_vars

\* C12: the answer held for a question is the last option selected for it,
\* whatever was selected before and whatever was selected for other
\* questions, and a submit request carries exactly these answers.
C12_LastSelectionWins ==
  [][/\ answers' = selected'
     /\ Len(submitReqs') > Len(submitReqs) =>
          submitReqs'[Len(submitReqs')].answers = selected]_vars

\* C12 witness: every question was answered A and submitted, then question 1
\* was re-selected as B; the page holds B for it and A for the others
C12_Overwritten ==
  /\ Len(submitReqs) = 1
  /\ submitReqs[1].answers = [q \in Questions |-> "A"]
  /\ answers[1] = "B"
  /\ \A q \in Questions : q # 1 => answers[q] = "A"

\* C13: while the session is paused or submitted, no step changes answers or
\* currentQuestion.
C13_NoChangeUnlessInProgress ==
  [][(SessionStatus = "paused" \/ SessionStatus = "submitted") =>
       (answers' = answers /\ currentQuestion' = currentQuestion)]_vars

\* the security_violation messages among msgs
SecurityMsgs(msgs) == {m \in msgs : m.type = "security_violation"}

\* no incident of the session and type is stored or about to be stored
FirstOfType(s, t) ==
  /\ \A inc \in incidents : ~(inc.sessionId = s /\ inc.incidentType = t)
  /\ \A i \in 1..Len(wsInflight) :
       ~(wsInflight[i].sessionId = s /\ wsInflight[i].incidentType = t)

\* C16: every browser event handed to the page emits exactly one
\* security_violation of its kind with severity medium, and when the server
\* handles the message of a session's first violation of a type it does not
\* drop it: the incident goes on to be stored
C16_FirstViolationPersisted ==
  [][/\ \A kind \in BrowserKinds :
          BrowserEvent(kind)
            => SecurityMsgs(emitted') = {Msg("security_violation", kind, "medium", "")}
     /\ (/\ WsPageMessage
         /\ SessionExists(Head(wsOut).sessionId)
         /\ FirstOfType(Head(wsOut).sessionId, Head(wsOut).incidentType))
          => Len(wsInflight') = Len(wsInflight) + 1]_vars

\* C17: no increment is lost: the page's violationCount is the number of
\* browser events handed to handleSecurityViolation
C17_NoLostIncrement == violationCount = browserEvents

\* ids of the incidents this step creates and broadcasts
Broadcasted == {inc.id : inc \in incidents'} \ {inc.id : inc \in incidents}

\* the connection is open and authenticated as admin
AdminOpen(c) == connOpen[c] /\ connType[c] = "admin"

OthersReceive(f) ==
  /\ Broadcasted # {}
  /\ \A c \in Conns \ {f} : AdminOpen(c) => Broadcasted \subseteq inbox'[c]

\* C18: when the send to one admin connection fails, on either path, the
\* incident stays stored, every other open admin connection receives the
\* message, and POST /api/security-incidents does not answer with an error
C18_FailureStaysLocal ==
  [][\A f \in Conns, thrown \in BOOLEAN :
       /\ (\E i \in 1..MaxInflight : WsViolationPersistSendFails(i, f, thrown))
            => OthersReceive(f)
       /\ (\E s \in SessionIds :
              PostSecurityIncidentSendFails(s, "window_blur", "medium", f, thrown))
            => (OthersReceive(f) /\ response'.status = 200)]_vars

\* the fields of an incident that are fixed at creation
CreatedFields(inc) ==
  [sessionId |-> inc.sessionId, incidentType |-> inc.incidentType,
   severity |-> inc.severity, createdAt |-> inc.createdAt]

\* C19: every stored incident keeps its created fields in every step; a
\* resolved incident is not changed at all, and an unresolved one changes only
\* by becoming resolved
C19_ResolvedOnce ==
  [][\A inc \in incidents : \E o \in incidents' :
       /\ o.id = inc.id
       /\ CreatedFields(o) = CreatedFields(inc)
       /\ inc.isResolved => o = inc
       /\ ~inc.isResolved => (o = inc \/ o.isResolved)]_vars

\* the stored records a request could create or change
Stored == <<users, sessions, incidents>>

\* C20: a creation request naming an unknown or inactive hall ticket or
\* carrying a malformed body, and a submit request naming an unknown session,
\* is answered with a 4xx status and changes no user, session or incident
C20_InvalidRequestRejected ==
  [][/\ \A h \in TicketIds, body \in CreateBodies \cup {MalformedBody} :
          (CreationStep(h, body) /\ (~TicketValid(h) \/ ~SchemaAccepts(body)))
            => (response'.status \in 400..499 /\ Stored' = Stored)
     /\ \A i \in 1..MaxSubmits :
          (PostSubmit(i) /\ ~SessionExists(submitReqs[i].id))
            => (response'.status \in 400..499 /\ Stored' = Stored)]_vars

\* the message of a violation report as the handler keeps it across its awaits
Report(s) == [sessionId |-> s, incidentType |-> "window_blur", severity |-> "medium"]

C22_NoCountdownBeforeQuestions ==
  (examSession # 0 /\ questions <= 0) =>
     /\ timeRemaining = sessions[examSession].timeRemaining
     /\ timerSubmits = 0

\* the session is set and rendered, the questions query has not resolved, and
\* the full time is left
C22_WaitingForQuestions ==
  /\ mounted
  /\ examSession # 0 /\ cl.examSession # 0
  /\ questions = -1
  /\ timeRemaining = MaxTime

\* C23: with n >= 1 loaded questions currentQuestion stays within 1..n:
\* 'prev' at question 1 and 'next' at question n leave it where it is, and a
\* jump from the question grid lands on an index of 1..n.
C23_CurrentQuestionInRange ==
  [][/\ questions' >= 1 => currentQuestion' \in 1..questions'
     /\ (NavigateQuestion("prev") /\ currentQuestion = 1) => currentQuestion' = 1
     /\ (NavigateQuestion("next") /\ currentQuestion = questions) =>
          currentQuestion' = questions
     /\ \A n \in Questions : GoToQuestion(n) => currentQuestion' = n /\ n <= questions]_vars

\* the student stands on the last of the loaded questions
C23_AtLastQuestion ==
  /\ mounted /\ cl.examSession # 0
  /\ questions = MaxQuestions
  /\ currentQuestion = questions
  /\ currentQuestion > 1

\* C24: a session that a creation request inserts is in_progress, at question
\* 1, without answers, and its timeRemaining is the duration of its hall
\* ticket in seconds, whatever the request body carries.
C24_CreatedFromTicket ==
  [][\A h \in HallTickets, body \in AnyBodies :
       (PostExamSessions(h, body) /\ Len(sessions') > Len(sessions)) =>
          LET row == sessions'[Len(sessions')] IN
            /\ row.status = "in_progress"
            /\ row.currentQuestion = 1
            /\ row.answers = EmptySheet
            /\ row.timeRemaining = TicketTime(h)]_vars

\* C25: a run of the face-monitoring effect on a sample with a face that is
\* not looking away, several faces included, leaves lookAwayCount at 0.
C25_FaceInViewResets ==
  [][(/\ HandleMonitoring
      /\ cl.examSession # 0 /\ cl.cameraActive
      /\ cl.detection.faceDetected /\ ~cl.detection.lookingAway)
       => lookAwayCount' = 0]_vars

\* C26: after any interleaving of creation requests at most one exam session
\* exists per student and hall ticket.
C26_OneSessionPerTicket ==
  \A i, j \in 1..Len(sessions) :
     sessions[i].hallTicketId = sessions[j].hallTicketId => i = j

\* C27: a violation message goes on to be persisted only if its connection
\* declared itself a student and the session it names exists and belongs to
\* that student; otherwise nothing is persisted and nothing is broadcast.
C27_OnlyOwnSession ==
  [][\A c \in Conns, s \in SessionIds :
       WsViolationGate(c, s, "window_blur", "medium") =>
          /\ wsInflight' # wsInflight =>
               /\ connType[c] = "student"
               /\ SessionExists(s)
               /\ sessions[s].hallTicketId = StudentOf(c)
          /\ incidents' = incidents /\ inbox' = inbox]_vars

\* what connection c has received: incidents and relayed messages
Received(c) == <<inbox[c], relayed[c]>>

\* C28: a broadcast of the server reaches only connections that are open and
\* whose latest auth message declared admin at that moment; a connection
\* without auth or with a student's auth receives nothing.
C28_OnlyOpenAdminsReceive ==
  [][\A c \in Conns :
       /\ (connOpen[c] /\ connOpen'[c] /\ Received(c)' # Received(c)) => AdminOpen(c)
       /\ (connOpen'[c] /\ ~connOpen[c]) => Received(c)' = <<{}, {}>>
       /\ (connOpen'[c] /\ connType'[c] # "admin" /\ connType[c] # "admin")
            => (Received(c)' = Received(c) \/ ~connOpen[c])]_vars

\* an admin connection received an incident and a relayed message while
\* another open connection, authenticated as student, received nothing
C28_AdminHearsStudentDoesNot ==
  \E c, d \in Conns :
     /\ AdminOpen(c) /\ inbox[c] # {} /\ relayed[c] # {}
     /\ connOpen[d] /\ connType[d] = "student" /\ Received(d) = <<{}, {}>>

\* C29: once the violation count has reached 3, a further browser violation
\* (the handler counts 4, 5, ...) schedules no additional submission and does
\* not pause the exam again.
C29_OneGraceSubmission ==
  [][\A kind \in BrowserKinds :
       (BrowserEvent(kind) /\ cl.violationCount >= 3) =>
          /\ graceTimers' = graceTimers
          /\ isPaused' = isPaused]_vars

\* C30: when the DOM events of one user action (a press of a blocked key or a
\* tab switch) have all been dispatched, violationCount is one more than it
\* was when the action began.
C30_OneActionOneViolation ==
  (gesture.events = <<>> /\ gesture.base >= 0) => violationCount = gesture.base + 1

====
